---- MODULE Spec2Model ----
(***************************************************************************)
(* Interpolation-based reprojection (reproject/interpolation/core.py and   *)
(* reproject/array_utils.py) as a state machine.                           *)
(*                                                                         *)
(* Fixed point: pixel coordinates are integers in tenths of a pixel        *)
(* (One = 1.0, Half = 0.5).  A sample is a record [k, v]: k = "fin" with   *)
(* the integer v, or k = "nan" / "inf" / "ninf" with v = 0.  A value       *)
(* sampled from an n-dimensional grid is a numerator over One^n, so that   *)
(* linear interpolation stays exact.                                       *)
(***************************************************************************)
EXTENDS Integers, Sequences, FiniteSets, TLC

\* ------------------------------------------------------------------ bounds
\* largest extent of an axis
MaxDim == 2

\* largest number of samples in an array
MaxSize == 8

\* largest number of axes
MaxRank == 5

One == 10

Half == 5

\* ------------------------------------------------------------- IEEE samples
Fin(n) == [k |-> "fin", v |-> n]

NaN == [k |-> "nan", v |-> 0]

PosInf == [k |-> "inf", v |-> 0]

NegInf == [k |-> "ninf", v |-> 0]

isnan(x) == x.k = "nan"

isfinite(x) == x.k = "fin"

\* w * x for a weight w >= 0 (0 * inf is NaN)
FMul(w, x) ==
    CASE x.k = "fin" -> Fin(w * x.v)
      [] x.k = "nan" -> NaN
      [] OTHER -> IF w = 0 THEN NaN ELSE x

\* x + y (inf + -inf is NaN)
FAdd(x, y) ==
    CASE x.k = "nan" \/ y.k = "nan" -> NaN
      [] x.k = "fin" /\ y.k = "fin" -> Fin(x.v + y.v)
      [] x.k = "fin" -> y
      [] y.k = "fin" -> x
      [] OTHER -> IF x.k = y.k THEN x ELSE NaN

\* ---------------------------------------------------------- shapes, indices
RECURSIVE Prod(_)
Prod(s) == IF s = <<>> THEN 1 ELSE Head(s) * Prod(Tail(s))

\* C-order strides (in elements) of a contiguous array of this shape
CStrides(shape) == [k \in 1..Len(shape) |-> Prod(SubSeq(shape, k + 1, Len(shape)))]

RECURSIVE Dot(_, _)
Dot(a, b) == IF a = <<>> THEN 0 ELSE Head(a) * Head(b) + Dot(Tail(a), Tail(b))

\* flat C-order position of a multi-index
Ravel(idx, shape) == Dot(idx, CStrides(shape))

\* multi-index of a flat C-order position
Unravel(j, shape) ==
    LET st == CStrides(shape)
    IN  [k \in 1..Len(shape) |-> (j \div st[k]) % shape[k]]

\* an array: its shape and its samples in C order (positions 0..size-1)
At(image, idx) == image.data[Ravel(idx, image.shape)]

Clamp(i, lo, hi) == IF i < lo THEN lo ELSE IF i > hi THEN hi ELSE i

\* ---------------------------------------------------------------- pad_edge_1
\* faulty variant: the border is padded with zeros instead of the edge samples
pad_edge_1_zero(array) ==
    LET ny == array.shape[1]
        nx == array.shape[2]
        pshape == <<ny + 2, nx + 2>>
    IN  [shape |-> pshape,
         data |-> [j \in 0..((ny + 2) * (nx + 2) - 1) |->
                     LET rc == Unravel(j, pshape)
                     IN  IF rc[1] \in 1..ny /\ rc[2] \in 1..nx
                         THEN At(array, <<rc[1] - 1, rc[2] - 1>>)
                         ELSE Fin(0)]]

pad_edge_1(array) ==
    LET ny == array.shape[1]
        nx == array.shape[2]
        pshape == <<ny + 2, nx + 2>>
    IN  [shape |-> pshape,
         data |-> [j \in 0..((ny + 2) * (nx + 2) - 1) |->
                     LET rc == Unravel(j, pshape)
                     IN  At(array, <<Clamp(rc[1] - 1, 0, ny - 1),
                                     Clamp(rc[2] - 1, 0, nx - 1)>>)]]

\* ------------------------------------------- scipy.ndimage.map_coordinates
\* mode='constant': a coordinate outside [0, len-1] on any axis gives cval
OutOfRange(shape, coord) ==
    \E k \in 1..Len(shape) : coord[k] < 0 \/ coord[k] > (shape[k] - 1) * One

\* a support index beyond the last sample is mirrored about it
Mirror(i, len) == IF len <= 1 THEN 0 ELSE IF i >= len THEN 2 * len - 2 - i ELSE i

\* support points of one axis: <<index, weight>> pairs, weights summing to One
Support(cc, len, order) ==
    IF order = 0
    THEN << <<(cc + Half) \div One, One>> >>
    ELSE LET start == cc \div One
             w == cc - start * One
         IN  << <<start, One - w>>, <<Mirror(start + 1, len), w>> >>

RECURSIVE Interp(_, _, _, _)
Interp(image, coord, order, idx) ==
    LET k == Len(idx) + 1
    IN  IF k > Len(image.shape)
        THEN At(image, idx)
        ELSE LET sup == Support(coord[k], image.shape[k], order)
                 term(j) == FMul(sup[j][2], Interp(image, coord, order, Append(idx, sup[j][1])))
             IN  IF Len(sup) = 1 THEN term(1) ELSE FAdd(term(1), term(2))

scipy_map_coordinates(image, coord, order, cval) ==
    IF OutOfRange(image.shape, coord) THEN cval ELSE Interp(image, coord, order, <<>>)

\* ------------------------------------------------- core.py map_coordinates
\* faulty variant: the far edge size-0.5 itself is reset
Reset_closed(shape, coord) ==
    \/ coord[1] < -Half
    \/ coord[1] >= shape[1] * One - Half
    \/ coord[2] < -Half
    \/ coord[2] >= shape[2] * One - Half

\* the mask of line 29-30, for one output element (coord = <<y, x>>)
Reset(shape, coord) ==
    \/ coord[1] < -Half
    \/ coord[1] > shape[1] * One - Half
    \/ coord[2] < -Half
    \/ coord[2] > shape[2] * One - Half

Shifted(coord) == [k \in 1..Len(coord) |-> coord[k] + One]

map_coordinates(image, coord, order, cval) ==
    IF Len(image.shape) = 2
    THEN LET values == scipy_map_coordinates(pad_edge_1(image), Shifted(coord), order, cval)
         IN  IF Reset(image.shape, coord) THEN cval ELSE values
    ELSE scipy_map_coordinates(image, coord, order, cval)

\* ------------------------------------------------------- numpy views
\* swapaxes on the axis permutation of a view (view axis -> axis of the base)
swapaxes(perm, a, b) ==
    [k \in 1..Len(perm) |-> IF k = a THEN perm[b] ELSE IF k = b THEN perm[a] ELSE perm[k]]

Identity(rank) == [k \in 1..rank |-> k]

\* array_utils.py 32-37; numpy axis -1 is axis rank, -2 is rank-1, -1-a is rank-a
ViewPerm(rank, lng, lat) ==
    IF lng = 1 /\ lat = 0
    THEN swapaxes(Identity(rank), rank, rank - 1)
    ELSE swapaxes(swapaxes(Identity(rank), rank - 1, rank - lat), rank, rank - lng)

ViewShape(shape, perm) == [k \in 1..Len(shape) |-> shape[perm[k]]]

ViewStrides(shape, perm) == [k \in 1..Len(shape) |-> CStrides(shape)[perm[k]]]

\* array_utils.py 42-48
NRemaining(vshape) ==
    (Prod(vshape) \div vshape[Len(vshape)]) \div vshape[Len(vshape) - 1]

\* numpy reshape returns a view when the axes it merges are laid out
\* contiguously (axes of extent 1 dropped), and a copy otherwise
RECURSIVE DropOnes(_, _)
DropOnes(dims, other) ==
    IF dims = <<>> THEN <<>>
    ELSE IF Head(dims) = 1 THEN DropOnes(Tail(dims), Tail(other))
    ELSE <<Head(other)>> \o DropOnes(Tail(dims), Tail(other))

Mergeable(od, os, oi, oj) == \A ok \in oi..(oj - 1) : os[ok] = od[ok + 1] * os[ok + 1]

RECURSIVE NoCopyFrom(_, _, _, _, _, _, _, _)
NoCopyFrom(od, os, nd, oi, oj, op, ni, nj) ==
    LET np == Prod(SubSeq(nd, ni, nj))
    IN  IF np = op
        THEN /\ Mergeable(od, os, oi, oj)
             /\ (nj + 1 > Len(nd) \/ oj + 1 > Len(od)
                 \/ NoCopyFrom(od, os, nd, oj + 1, oj + 1, od[oj + 1], nj + 1, nj + 1))
        ELSE IF np < op
        THEN NoCopyFrom(od, os, nd, oi, oj, op, ni, nj + 1)
        ELSE NoCopyFrom(od, os, nd, oi, oj + 1, op * od[oj + 1], ni, nj)

ReshapeIsView(vshape, vstrides, newshape) ==
    LET od == DropOnes(vshape, vshape)
        os == DropOnes(vshape, vstrides)
    IN  od = <<>> \/ NoCopyFrom(od, os, newshape, 1, 1, od[1], 1, 1)

\* array_utils.py 53-54: the shape the view is flattened to
Flat3(vshape) == <<NRemaining(vshape), vshape[Len(vshape) - 1], vshape[Len(vshape)]>>

\* position in the base array of element (r, c) of slice i of the flattened view
BaseIndex(shape, perm, i, r, c) ==
    LET vshape == ViewShape(shape, perm)
        j == Ravel(<<i, r, c>>, Flat3(vshape))
    IN  Dot(Unravel(j, vshape), ViewStrides(shape, perm))

\* ------------------------------------------------------------- the state
VARIABLES
    pc,            \* position in _reproject
    caller_array,  \* the caller's array object (samples in C order)
    is_float,      \* the caller's array is a float64 ndarray: np.asarray returns it
    array,         \* _reproject's local `array` (np.asarray result)
    shape_in,      \* array.shape
    wcs_in,        \* [naxis, axis_types, lng, lat]
    wcs_out,       \* [naxis, axis_types, shift]
    shape_out,
    order,
    array_new,     \* [alloc, data]: the output buffer
    footprint,
    coordinates,   \* cached pixel-coordinate map (<<>> while xp_in is None)
    slice_index,   \* the generator's loop variable
    out_is_view,   \* array_out_view aliases array_new after the reshape
    err,           \* the exception raised, "" if none
    n_lookup,      \* calls of get_input_pixels
    calls,         \* map_coordinates calls so far: <<slice, ndim of image>>
    yielded,       \* values assigned through slice_out, per slice
    mc             \* a stand-alone map_coordinates call (SpecMC)

vars == <<pc, caller_array, is_float, array, shape_in, wcs_in, wcs_out, shape_out,
          order, array_new, footprint, coordinates, slice_index, out_is_view, err,
          n_lookup, calls, yielded, mc>>

\* ------------------------------------------------------- get_input_pixels
\* The WCS objects are opaque: the pixel -> world -> pixel chain is modelled
\* as a translation by wcs_out.shift = <<sx, sy, sz>> (tenths of a pixel).
\* Result: for every output pixel (flat C order) its coordinate in the input,
\* already in numpy axis order (core.py 99 / 126 reverse x, y[, z]).
PixelMap(shape, shift) ==
    [j \in 0..(Prod(shape) - 1) |->
        LET p == Unravel(j, shape)
            n == Len(shape)
        IN  [k \in 1..n |-> p[k] * One + shift[n + 1 - k]]]

\* core.py 67-73: more than three axes are rejected
LookupFails(shape) == Len(shape) > 3

\* ------------------------------------------------------------ _reproject
\* faulty variant: the axis types are compared without requiring equal axis counts
NotEquivalent_anynaxis(win, wout) ==
    \E k \in 1..win.naxis : k <= wout.naxis /\ win.axis_types[k] # wout.axis_types[k]

\* core.py 91-92
NotEquivalent(win, wout) ==
    /\ win.naxis = wout.naxis
    /\ \E k \in 1..win.naxis : win.axis_types[k] # wout.axis_types[k]

\* faulty variant: the whole-volume branch is taken for cubes only
WholeVolume_cubes(sout, sin) == Len(sout) = 3 /\ sout[1] # sin[1]

\* faulty variant: the whole-volume branch ignores the leading extents
WholeVolume_always(sout, sin) == Len(sout) >= 3

\* core.py 95
WholeVolume(sout, sin) == Len(sout) >= 3 /\ sout[1] # sin[1]

\* core.py 100-101
ZeroBad(data) == [j \in DOMAIN data |-> IF isfinite(data[j]) THEN data[j] ELSE Fin(0)]

\* core.py 134
Footprint(data) == [j \in DOMAIN data |-> IF ~isnan(data[j]) THEN 1 ELSE 0]

Zeros(shape) == [j \in 0..(Prod(shape) - 1) |-> Fin(0)]

InPerm == ViewPerm(Len(shape_in), wcs_in.lng, wcs_in.lat)

OutPerm == ViewPerm(Len(shape_out), wcs_in.lng, wcs_in.lat)

InView == ViewShape(shape_in, InPerm)

OutView == ViewShape(shape_out, OutPerm)

\* slice i of the input as a 2-D image
SliceIn(i) ==
    LET s == <<InView[Len(InView) - 1], InView[Len(InView)]>>
    IN  [shape |-> s,
         data |-> [j \in 0..(Prod(s) - 1) |->
                     array[BaseIndex(shape_in, InPerm, i, Unravel(j, s)[1], Unravel(j, s)[2])]]]

SliceOutShape == <<OutView[Len(OutView) - 1], OutView[Len(OutView)]>>

\* core.py 86-93
Validate ==
    /\ pc = "call"
    /\ array' = caller_array
    /\ IF NotEquivalent(wcs_in, wcs_out)
       THEN pc' = "raised" /\ err' = "not equivalent"
       ELSE pc' = "select" /\ err' = err
    /\ UNCHANGED <<caller_array, is_float, shape_in, wcs_in, wcs_out, shape_out, order,
                   array_new, footprint, coordinates, slice_index, out_is_view,
                   n_lookup, calls, yielded, mc>>

\* core.py 95-98: the whole-volume branch calls get_input_pixels on shape_out
FullLookup ==
    /\ pc = "select"
    /\ WholeVolume(shape_out, shape_in)
    /\ n_lookup' = n_lookup + 1
    /\ IF LookupFails(shape_out)
       THEN pc' = "raised" /\ err' = ">3 dimensional cube" /\ coordinates' = coordinates
       ELSE pc' = "volume" /\ err' = err /\ coordinates' = PixelMap(shape_out, wcs_out.shift)
    /\ UNCHANGED <<caller_array, is_float, array, shape_in, wcs_in, wcs_out, shape_out,
                   order, array_new, footprint, slice_index, out_is_view, calls,
                   yielded, mc>>

\* core.py 99-104
VolumeInterp ==
    /\ pc = "volume"
    /\ array' = ZeroBad(array)
    /\ caller_array' = IF is_float THEN ZeroBad(array) ELSE caller_array
    /\ array_new' = [alloc |-> TRUE,
                     data |-> [j \in 0..(Prod(shape_out) - 1) |->
                                 map_coordinates([shape |-> shape_in, data |-> ZeroBad(array)],
                                                 coordinates[j], order, NaN)]]
    /\ calls' = Append(calls, <<0, Len(shape_in)>>)
    /\ pc' = "return"
    /\ UNCHANGED <<is_float, shape_in, wcs_in, wcs_out, shape_out, order, footprint,
                   coordinates, slice_index, out_is_view, err, n_lookup, yielded, mc>>

\* core.py 113-115
Allocate ==
    /\ pc = "select"
    /\ ~WholeVolume(shape_out, shape_in)
    /\ array_new' = [alloc |-> TRUE, data |-> Zeros(shape_out)]
    /\ coordinates' = <<>>
    /\ pc' = "iterate"
    /\ UNCHANGED <<caller_array, is_float, array, shape_in, wcs_in, wcs_out, shape_out,
                   order, footprint, slice_index, out_is_view, err, n_lookup, calls,
                   yielded, mc>>

\* array_utils.py 31-54: the generator runs up to its loop on the first next()
IterStart ==
    /\ pc = "iterate"
    /\ IF NRemaining(InView) # NRemaining(OutView)
       THEN /\ pc' = "raised"
            /\ err' = "Number of non-celestial elements should match"
            /\ out_is_view' = out_is_view
       ELSE /\ pc' = "loop"
            /\ err' = err
            /\ out_is_view' = ReshapeIsView(OutView, ViewStrides(shape_out, OutPerm),
                                            Flat3(OutView))
    /\ slice_index' = 0
    /\ UNCHANGED <<caller_array, is_float, array, shape_in, wcs_in, wcs_out, shape_out,
                   order, array_new, footprint, coordinates, n_lookup, calls, yielded, mc>>

\* array_utils.py 56-57 and core.py 122-132: one slice pair is yielded,
\* interpolated and assigned through slice_out
SliceStep ==
    /\ pc = "loop"
    /\ slice_index < NRemaining(InView)
    /\ LET coords == IF coordinates = <<>>
                     THEN PixelMap(SliceOutShape, wcs_out.shift)
                     ELSE coordinates
           values == [j \in 0..(Prod(SliceOutShape) - 1) |->
                        map_coordinates(SliceIn(slice_index), coords[j], order, NaN)]
           target(j) == BaseIndex(shape_out, OutPerm, slice_index,
                                  Unravel(j, SliceOutShape)[1], Unravel(j, SliceOutShape)[2])
       IN  /\ coordinates' = coords
           /\ n_lookup' = IF coordinates = <<>> THEN n_lookup + 1 ELSE n_lookup
           /\ yielded' = Append(yielded, values)
           /\ array_new' =
                IF out_is_view
                THEN [array_new EXCEPT !.data =
                        [b \in DOMAIN array_new.data |->
                            IF \E j \in DOMAIN values : target(j) = b
                            THEN values[CHOOSE j \in DOMAIN values : target(j) = b]
                            ELSE array_new.data[b]]]
                ELSE array_new
    /\ calls' = Append(calls, <<slice_index, 2>>)
    /\ slice_index' = slice_index + 1
    /\ UNCHANGED <<pc, caller_array, is_float, array, shape_in, wcs_in, wcs_out,
                   shape_out, order, footprint, out_is_view, err, mc>>

\* core.py 134
Return ==
    /\ \/ pc = "return"
       \/ pc = "loop" /\ slice_index = NRemaining(InView)
    /\ footprint' = Footprint(array_new.data)
    /\ pc' = "done"
    /\ UNCHANGED <<caller_array, is_float, array, shape_in, wcs_in, wcs_out, shape_out,
                   order, array_new, coordinates, slice_index, out_is_view, err,
                   n_lookup, calls, yielded, mc>>

\* ------------------------------------------- a stand-alone map_coordinates
\* core.py 11-36 applied to a 2-D image and a coordinate array of two points
MCApply ==
    /\ mc.pc = "call"
    /\ mc' = [mc EXCEPT
                !.pc = "done",
                !.reset = [i \in DOMAIN mc.coords |-> Reset(mc.image.shape, mc.coords[i])],
                !.values = [i \in DOMAIN mc.coords |->
                              map_coordinates(mc.image, mc.coords[i], mc.order, mc.cval)]]
    /\ UNCHANGED <<pc, caller_array, is_float, array, shape_in, wcs_in, wcs_out,
                   shape_out, order, array_new, footprint, coordinates, slice_index,
                   out_is_view, err, n_lookup, calls, yielded>>

\* ------------------------------------------------------------------ inputs
Shapes(rank) == {s \in [1..rank -> 1..MaxDim] : Prod(s) <= MaxSize}

\* distinct increasing samples, the first one replaced by `first`
Ramp(shape, first) ==
    [j \in 0..(Prod(shape) - 1) |-> IF j = 0 THEN first ELSE Fin(j + 1)]

Types(n) == [k \in 1..n |-> k]

\* the output WCS: equivalent; same naxis and one tag different; another naxis
WcsOutTypes(n) ==
    {Types(n), [Types(n) EXCEPT ![1] = 0], [Types(n) EXCEPT ![n] = 0],
     [k \in 1..(n + 1) |-> 0]}

Shifts == {<<0, 0, 0>>, <<Half, 0, 0>>, <<0, -Half - 1, Half>>}

IdleMC == [pc |-> "idle", image |-> <<>>, coords |-> <<>>, order |-> 0,
           cval |-> NaN, reset |-> <<>>, values |-> <<>>]

Fresh ==
    /\ pc = "call"
    /\ array = <<>>
    /\ array_new = [alloc |-> FALSE, data |-> <<>>]
    /\ footprint = <<>>
    /\ coordinates = <<>>
    /\ slice_index = 0
    /\ out_is_view = FALSE
    /\ err = ""
    /\ n_lookup = 0
    /\ calls = <<>>
    /\ yielded = <<>>
    /\ mc = IdleMC

\* the input shape is the output shape with at most one axis resized
Resized(s) ==
    {t \in Shapes(Len(s)) : Cardinality({k \in 1..Len(s) : t[k] # s[k]}) <= 1}

\* images and cubes in the standard axis order, any samples, any WCS pair
Init ==
    /\ \E rank \in 2..3 :
          /\ shape_out \in Shapes(rank)
          /\ shape_in \in Resized(shape_out)
          /\ wcs_in = [naxis |-> rank, axis_types |-> Types(rank), lng |-> 0, lat |-> 1]
          /\ \E t \in WcsOutTypes(rank), sh \in Shifts :
                wcs_out = [naxis |-> Len(t), axis_types |-> t, shift |-> sh]
    /\ \E first \in {Fin(1), NaN, PosInf, NegInf} : caller_array = Ramp(shape_in, first)
    /\ is_float \in BOOLEAN
    /\ order \in {0, 1}
    /\ Fresh

\* arrays of every rank and every position of the celestial axes
InitShape ==
    /\ \E rank \in 2..MaxRank :
          /\ shape_out \in Shapes(rank)
          /\ \E lng \in 0..(rank - 1), lat \in 0..(rank - 1) :
                /\ lng # lat
                /\ wcs_in = [naxis |-> rank, axis_types |-> Types(rank),
                             lng |-> lng, lat |-> lat]
          /\ wcs_out = [naxis |-> rank, axis_types |-> Types(rank), shift |-> <<0, 0, 0>>]
    /\ shape_in \in Resized(shape_out)
    /\ caller_array = Ramp(shape_in, Fin(1))
    /\ is_float = TRUE
    /\ order = 1
    /\ Fresh

\* the coordinates tried on an axis of extent size
AxisCoords(size) ==
    {-One, -Half - 1, -Half, 0, 3, size * One - Half, size * One - Half + 1,
     size * One + Half - 1}

Points(shape) == {<<y, x>> : y \in AxisCoords(shape[1]), x \in AxisCoords(shape[2])}

InitMC ==
    /\ \E ny \in 1..MaxDim, nx \in 1..MaxDim :
          \E p1 \in Points(<<ny, nx>>), p2 \in Points(<<ny, nx>>) :
             \E o \in {0, 1}, cv \in {NaN, Fin(0)} :
                mc = [pc |-> "call",
                      image |-> [shape |-> <<ny, nx>>, data |-> Ramp(<<ny, nx>>, Fin(1))],
                      coords |-> <<p1, p2>>, order |-> o, cval |-> cv,
                      reset |-> <<>>, values |-> <<>>]
    /\ pc = "idle"
    /\ caller_array = <<>>
    /\ is_float = FALSE
    /\ array = <<>>
    /\ shape_in = <<>>
    /\ shape_out = <<>>
    /\ wcs_in = <<>>
    /\ wcs_out = <<>>
    /\ order = 0
    /\ array_new = [alloc |-> FALSE, data |-> <<>>]
    /\ footprint = <<>>
    /\ coordinates = <<>>
    /\ slice_index = 0
    /\ out_is_view = FALSE
    /\ err = ""
    /\ n_lookup = 0
    /\ calls = <<>>
    /\ yielded = <<>>

Next ==
    \/ Validate
    \/ FullLookup
    \/ VolumeInterp
    \/ Allocate
    \/ IterStart
    \/ SliceStep
    \/ Return

Spec == Init /\ [][Next]_vars

SpecShape == InitShape /\ [][Next]_vars

NextMC == MCApply

SpecMC == InitMC /\ [][NextMC]_vars

\* ------------------------------------------------------------ properties
\* position (1-based) of WCS axis a among the numpy axes of a rank-n array
NumpyAxis(n, a) == n - a

\* product of the extents of the non-celestial axes
NonSpatial(shape) ==
    Prod(shape) \div (shape[NumpyAxis(Len(shape), wcs_in.lat)]
                      * shape[NumpyAxis(Len(shape), wcs_in.lng)])

LeadingDiffers == Len(shape_out) >= 3 /\ shape_out[1] # shape_in[1]

\* C1: when _reproject returns, footprint[p] is 1.0 exactly where output[p]
\* is finite and 0.0 elsewhere, for every pixel p, whatever the input samples.
C1_FootprintIffFinite ==
    pc = "done" =>
        \A p \in DOMAIN array_new.data :
            footprint[p] = IF isfinite(array_new.data[p]) THEN 1 ELSE 0

\* C2: no step of _reproject changes a sample of the caller's input array.
C2_InputNeverMutated == [][caller_array' = caller_array]_vars

\* C3 (as claimed): every request with an output shape of rank >= 5 raises the
\* ">3 dimensional cube" error, whatever the leading extents, and no output
\* buffer is ever allocated.
C3_Rank5AlwaysRejected ==
    Len(shape_out) >= 5 =>
        /\ ~array_new.alloc
        /\ pc # "done"
        /\ (pc = "raised" => err = ">3 dimensional cube")

\* C3 (amended): a request of rank >= 5 whose leading output extent differs
\* from the input's ends in the ">3 dimensional cube" error (once the WCS
\* check has passed) with no output buffer allocated; with equal leading
\* extents the slice-wise path runs instead: the buffer is allocated and that
\* error is never raised.
C3_Rank5RejectedOnVolumePath ==
    Len(shape_out) >= 5 =>
        IF shape_out[1] # shape_in[1]
        THEN /\ ~array_new.alloc
             /\ pc \in {"call", "select", "raised"}
             /\ (pc = "raised" => err \in {">3 dimensional cube", "not equivalent"})
             /\ calls = <<>>
        ELSE /\ err # ">3 dimensional cube"
             /\ (pc \in {"iterate", "loop", "done"} => array_new.alloc)

C3_Witness ==
    /\ Len(shape_out) >= 5
    /\ shape_out[1] # shape_in[1]
    /\ pc = "raised"
    /\ err = ">3 dimensional cube"
    /\ ~array_new.alloc

\* a column (or row) coordinate inside the true coverage of an axis
ValidCoord(c, size) == -Half <= c /\ c <= size * One - Half

InBorderClaimed(c, size) ==
    \/ -One <= c /\ c < -Half
    \/ size * One - Half <= c /\ c < size * One + Half

InBorder(c, size) ==
    \/ -One <= c /\ c < -Half
    \/ size * One - Half < c /\ c < size * One + Half

\* C9 (as claimed): an element is reset to the fill value when its coordinate
\* on either axis lies in [-1, -0.5) or in [size-0.5, size+0.5), size-0.5
\* included, and is not reset when both lie in [-0.5, size-0.5).
C9_ResetIncludesUpperEdge ==
    mc.pc = "done" =>
        \A i \in DOMAIN mc.coords :
            LET p == mc.coords[i]
                sh == mc.image.shape
            IN  /\ (InBorderClaimed(p[1], sh[1]) \/ InBorderClaimed(p[2], sh[2]))
                      => mc.reset[i] /\ mc.values[i] = mc.cval
                /\ (/\ -Half <= p[1] /\ p[1] < sh[1] * One - Half
                    /\ -Half <= p[2] /\ p[2] < sh[2] * One - Half)
                      => ~mc.reset[i]

\* C9 (amended): an element is reset to the fill value when its coordinate on
\* either axis lies in [-1, -0.5) or in (size-0.5, size+0.5), size-0.5
\* excluded; it is not reset, and holds an interpolated sample, when both
\* coordinates lie in [-0.5, size-0.5], both ends included.
C9_ResetExcludesUpperEdge ==
    mc.pc = "done" =>
        \A i \in DOMAIN mc.coords :
            LET p == mc.coords[i]
                sh == mc.image.shape
            IN  /\ (InBorder(p[1], sh[1]) \/ InBorder(p[2], sh[2]))
                      => mc.reset[i] /\ mc.values[i] = mc.cval
                /\ (ValidCoord(p[1], sh[1]) /\ ValidCoord(p[2], sh[2]))
                      => ~mc.reset[i] /\ mc.values[i] # mc.cval

C9_Witness ==
    /\ mc.pc = "done"
    /\ mc.coords[1][1] = mc.image.shape[1] * One - Half
    /\ mc.coords[1][2] = 0
    /\ ~mc.reset[1]
    /\ mc.values[1] # mc.cval

\* C5: each yielded input slice has its rows along the latitude axis (numpy
\* axis -1-lat) and its columns along the longitude axis (numpy axis -1-lng)
\* of the array, every other axis fixed within the slice, and the input and
\* output slices of one index share their non-celestial coordinates.
C5_SlicesAreCelestial ==
    (pc = "loop" /\ slice_index < NRemaining(InView)) =>
        LET n == Len(shape_in)
            la == NumpyAxis(n, wcs_in.lat)
            lo == NumpyAxis(n, wcs_in.lng)
            min(r, c) == Unravel(BaseIndex(shape_in, InPerm, slice_index, r, c), shape_in)
            mout(r, c) == Unravel(BaseIndex(shape_out, OutPerm, slice_index, r, c), shape_out)
        IN  /\ \A r \in 0..(InView[n - 1] - 1), c \in 0..(InView[n] - 1) :
                  /\ min(r, c)[la] = r
                  /\ min(r, c)[lo] = c
                  /\ \A k \in 1..n : k \notin {la, lo} => min(r, c)[k] = min(0, 0)[k]
            /\ \A k \in 1..n : k \notin {la, lo} => min(0, 0)[k] = mout(0, 0)[k]

\* C6: whatever is assigned through a yielded output slice is what the
\* output array holds at the corresponding elements, so after the loop every
\* element holds its slice's value.
C6_WritesReachOutput ==
    pc \in {"loop", "done"} =>
        \A i \in 1..Len(yielded) :
            \A j \in DOMAIN yielded[i] :
                array_new.data[BaseIndex(shape_out, OutPerm, i - 1,
                                         Unravel(j, SliceOutShape)[1],
                                         Unravel(j, SliceOutShape)[2])] = yielded[i][j]

TypesDiffer ==
    \E k \in 1..wcs_in.naxis : wcs_in.axis_types[k] # wcs_out.axis_types[k]

\* C7: the "not equivalent" error is raised exactly when both WCS have the
\* same axis count and their axis types differ somewhere; with different axis
\* counts the call proceeds; and the error comes before any pixel lookup,
\* allocation or interpolation.
C7_NotEquivalentExactly ==
    /\ pc # "call" =>
          ((pc = "raised" /\ err = "not equivalent")
              <=> (wcs_in.naxis = wcs_out.naxis /\ TypesDiffer))
    /\ err = "not equivalent" =>
          n_lookup = 0 /\ calls = <<>> /\ ~array_new.alloc /\ coordinates = <<>>

C7_Witness ==
    /\ pc = "raised"
    /\ err = "not equivalent"
    /\ wcs_in.axis_types[1] = wcs_out.axis_types[1]
    /\ n_lookup = 0

\* C8: on the slice-wise path, when the products of the non-celestial extents
\* of input and output disagree the iteration raises the shape-mismatch error
\* before any slice pair is yielded (nothing interpolated, nothing written);
\* when they agree exactly that many pairs are yielded and nothing is raised.
C8_MismatchBeforeAnySlice ==
    (~LeadingDiffers /\ pc \in {"loop", "raised", "done"}) =>
        IF NonSpatial(shape_in) # NonSpatial(shape_out)
        THEN /\ pc = "raised"
             /\ err = "Number of non-celestial elements should match"
             /\ yielded = <<>>
             /\ calls = <<>>
             /\ array_new.data = Zeros(shape_out)
        ELSE /\ err = ""
             /\ (pc = "done" => Len(yielded) = NonSpatial(shape_in))

\* C10: the whole-volume path is taken exactly when the output shape has
\* three or more axes and a leading extent different from the input's: one
\* pixel lookup over all axes, non-finite input samples zeroed, one
\* interpolation call on the unpadded volume.  Otherwise the slice-wise path:
\* the output starts as zeros of the output shape, the 2-D pixel map is
\* computed once, on the first slice, and the padded 2-D interpolation runs
\* once per slice, in slice order.
C10_PathSelection ==
    /\ pc \in {"volume", "return"} => LeadingDiffers
    /\ pc \in {"iterate", "loop"} => ~LeadingDiffers
    /\ pc = "volume" => n_lookup = 1 /\ DOMAIN coordinates = 0..(Prod(shape_out) - 1)
    /\ pc \in {"return", "done"} /\ LeadingDiffers =>
          /\ n_lookup = 1
          /\ calls = << <<0, Len(shape_in)>> >>
          /\ Len(shape_in) # 2
          /\ \A j \in DOMAIN array : isfinite(array[j]) /\ (j > 0 => array[j] = Fin(j + 1))
    /\ pc = "iterate" => array_new = [alloc |-> TRUE, data |-> Zeros(shape_out)]
    /\ pc = "iterate" => n_lookup = 0 /\ calls = <<>>
    /\ pc = "loop" =>
          /\ n_lookup = (IF slice_index = 0 THEN 0 ELSE 1)
          /\ calls = [i \in 1..slice_index |-> <<i - 1, 2>>]
    /\ pc = "done" /\ ~LeadingDiffers =>
          /\ n_lookup = 1
          /\ calls = [i \in 1..NonSpatial(shape_in) |-> <<i - 1, 2>>]

C10_Witness ==
    /\ pc = "done"
    /\ ~LeadingDiffers
    /\ Len(calls) = 2
    /\ n_lookup = 1

====
